---- MODULE Spec2Model ----
(***************************************************************************)
(* The identity store of the face-recognition server: the in-memory        *)
(* faceDB array and the three routes that touch it,                        *)
(*   POST /api/register-face, POST /api/recognize-face, GET /api/data.     *)
(*                                                                         *)
(* Numbers.  A descriptor element e stands for the JavaScript number e/10  *)
(* (3 is 0.3, 6 is 0.6).  A sum of squares is therefore in hundredths, and *)
(* a distance or a confidence is kept in thousandths, truncated (600 is    *)
(* 0.6, 1000 is 1, 292 is 0.2928...).  On the element values used here the *)
(* double arithmetic of the server agrees with this exact arithmetic on    *)
(* every comparison the handler makes: 0.6 - 0.3 = 0.3 and 0.3 * 0.3 =     *)
(* 0.09 are exact in doubles, Math.sqrt(0.36) is 0.6, and every sum below  *)
(* 0.36 is a sum of equal terms 0.09.                                      *)
(***************************************************************************)
EXTENDS Integers, Sequences, FiniteSets, TLC

VARIABLES faceDB, last, inflight, replies,
          active, capture, recognition, ageGender, emotion

\* The state of the browser: the state of each of the four components App
\* renders, and the set of those that have taken a step since mount.
client == <<active, capture, recognition, ageGender, emotion>>

vars == <<faceDB, last, inflight, replies, client>>

(* ------------------------------ bounds ------------------------------- *)

\* Length of a well-formed embedding (128 in the deployed face model).
D == 2

\* Largest store the exploration builds.
MaxRecords == 2

\* Number of clients with a request in flight at the same time.
NClients == 2

\* Number of calls of one asynchronous handler of a component that are
\* awaiting at the same time.
MaxPending == 1

\* Number of the four mounted components that take steps in one
\* behaviour; the others stay as mounted, their models still loading.
MaxActive == 2

(* ------------------------------ values ------------------------------- *)

\* Request names: the empty string, a blank string, and two names that
\* differ only in case.
Names == {"", " ", "A", "a"}

\* JavaScript truthiness of a string: only the empty string is falsy.
Truthy(name) == name # ""

\* String.prototype.trim on the request names.
Trim(name) == IF name = " " THEN "" ELSE name

\* A descriptor as it arrives in a JSON body.
\*   present: the value is truthy (false for a missing field or null)
\*   isArray: Array.isArray(value)
\*   elems:   the numbers value[0], value[1], ... up to the first index
\*            that holds none
\* Scalar is a truthy value with no number at any index ('x', 5, true,
\* {}); Indexed(v) is a truthy value that is not an array and holds the
\* numbers v at its indices ({"0": 0, "1": 0}, the string '00').
Absent == [present |-> FALSE, isArray |-> FALSE, elems |-> <<>>]
Scalar == [present |-> TRUE, isArray |-> FALSE, elems |-> <<>>]
Indexed(v) == [present |-> TRUE, isArray |-> FALSE, elems |-> v]
Arr(v) == [present |-> TRUE, isArray |-> TRUE, elems |-> v]

\* Element values of coordinate i, in tenths: the first two coordinates
\* vary, the others are 0.
Coords(i) == IF i = 1 THEN {0, 3, 6} ELSE IF i = 2 THEN {0, 3} ELSE {0}

\* The well-formed embeddings: arrays of exactly D numbers.
ValidVectors == {v \in [1..D -> {0, 3, 6}] : \A i \in 1..D : v[i] \in Coords(i)}

\* Arrays of another length: empty, one element short, one element long.
WrongVectors == {<<>>, [i \in 1..(D - 1) |-> 0], [i \in 1..(D + 1) |-> 0]}

\* The non-arrays with numbers at their indices: D zeros.
IndexedVectors == {[i \in 1..D |-> 0]}

Descriptors ==
  {Absent, Scalar} \cup {Indexed(v) : v \in IndexedVectors}
    \cup {Arr(v) : v \in ValidVectors \cup WrongVectors}

\* NaN, the result of arithmetic on undefined.
NaN == -1

\* Infinity, the initial bestMatch.distance.
Infinity == 1000000

\* The acceptance threshold 0.6, in thousandths.
Threshold == 600

\* Math.sqrt on a sum of squares given in hundredths: the distance in
\* thousandths, truncated.  (sqrt(s/100) * 1000 = sqrt(s * 10000).)
SqrtTable == [s \in 0..(36 * (D + 2)) |->
                CHOOSE r \in 0..(600 * (D + 2)) :
                   r * r <= s * 10000 /\ (r + 1) * (r + 1) > s * 10000]

Sqrt(s) == IF s = NaN THEN NaN ELSE SqrtTable[s]

(* ------------------------- euclideanDistance ------------------------- *)

\* The loop of euclideanDistance after i iterations: sum of
\* Math.pow(d1[k] - d2[k], 2) for k below i.  d2[k] is undefined past the
\* end of d2 (and for a d2 with nothing at index k), which makes the sum
\* NaN; d2 need not be an array to be indexed.
RECURSIVE SumLoop(_, _, _)
SumLoop(d1, d2, i) ==
  IF i = 0 THEN 0
  ELSE LET sum == SumLoop(d1, d2, i - 1)
       IN IF sum = NaN \/ i > Len(d2.elems) THEN NaN
          ELSE sum + (d1.elems[i] - d2.elems[i]) * (d1.elems[i] - d2.elems[i])

euclideanDistance(d1, d2) == Sqrt(SumLoop(d1, d2, Len(d1.elems)))

\* JavaScript a < b on numbers: false as soon as one side is NaN.
Lt(a, b) == a # NaN /\ b # NaN /\ a < b

(* ------------------------ POST /api/register-face -------------------- *)

NameTakenNever(db, name) == FALSE

Lower(name) == IF name = "A" THEN "a" ELSE name

NameTakenAnyCase(db, name) == \E i \in 1..Len(db) : Lower(db[i].name) = Lower(name)

\* faceDB.some(entry => entry.name === name)
NameTaken(db, name) == \E i \in 1..Len(db) : db[i].name = name

\* !name || !descriptor
RegisterMissing(body) == ~Truthy(body.name) \/ ~body.descriptor.present

\* Position of the record named name (0 when there is none).
IndexOf(db, name) ==
  IF \E i \in 1..Len(db) : db[i].name = name
    THEN CHOOSE i \in 1..Len(db) : db[i].name = name
    ELSE 0

RegisterFaceUpsert(db, body) ==
  IF ~Truthy(body.name) \/ ~body.descriptor.present
    THEN [db |-> db,
          res |-> [status |-> 400, success |-> FALSE,
                   error |-> "Name and descriptor are required"]]
  ELSE IF IndexOf(db, body.name) # 0
    THEN [db |-> [db EXCEPT ![IndexOf(db, body.name)].descriptor = body.descriptor],
          res |-> [status |-> 200, success |-> TRUE, count |-> Len(db)]]
  ELSE LET pushed == Append(db, [name |-> body.name, descriptor |-> body.descriptor])
       IN [db |-> pushed,
           res |-> [status |-> 200, success |-> TRUE, count |-> Len(pushed)]]

RegisterFaceUnshift(db, body) ==
  IF ~Truthy(body.name) \/ ~body.descriptor.present
    THEN [db |-> db,
          res |-> [status |-> 400, success |-> FALSE,
                   error |-> "Name and descriptor are required"]]
  ELSE IF \E i \in 1..Len(db) : db[i].name = body.name
    THEN [db |-> db,
          res |-> [status |-> 409, success |-> FALSE,
                   error |-> "Name already registered"]]
  ELSE LET pushed == <<[name |-> body.name, descriptor |-> body.descriptor]>> \o db
       IN [db |-> pushed,
           res |-> [status |-> 200, success |-> TRUE, count |-> Len(pushed)]]

\* The handler: the store it leaves and the response it sends.
RegisterFace(db, body) ==
  IF RegisterMissing(body)
    THEN [db |-> db,
          res |-> [status |-> 400, success |-> FALSE,
                   error |-> "Name and descriptor are required"]]
  ELSE IF NameTaken(db, body.name)
    THEN [db |-> db,
          res |-> [status |-> 409, success |-> FALSE,
                   error |-> "Name already registered"]]
  ELSE LET pushed == Append(db, [name |-> body.name, descriptor |-> body.descriptor])
       IN [db |-> pushed,
           res |-> [status |-> 200, success |-> TRUE, count |-> Len(pushed)]]

(* ----------------------- POST /api/recognize-face -------------------- *)

CloserOrEqual(distance, best) == Lt(distance, Threshold) /\ ~Lt(best.distance, distance)

CloserAtThreshold(distance, best) ==
  ~Lt(Threshold, distance) /\ distance # NaN /\ Lt(distance, best.distance)

\* distance < 0.6 && distance < bestMatch.distance
Closer(distance, best) == Lt(distance, Threshold) /\ Lt(distance, best.distance)

\* faceDB.forEach(person => ...) over the first n records.
RECURSIVE Scan(_, _, _)
Scan(db, descriptor, n) ==
  IF n = 0 THEN [name |-> "", distance |-> Infinity]
  ELSE LET bestMatch == Scan(db, descriptor, n - 1)
           distance  == euclideanDistance(descriptor, db[n].descriptor)
       IN IF Closer(distance, bestMatch)
            THEN [name |-> db[n].name, distance |-> distance]
            ELSE bestMatch

ConfidenceInverted(distance) == (distance * 1000) \div Threshold

\* The sum of squares, in hundredths, whose root a distance is: the least s
\* with distance <= sqrt(s / 100), the distance being that root truncated.
Squared(distance) == (distance * distance + 9999) \div 10000

\* 1 - sqrt(s / 100) / 0.6 in thousandths, truncated: 1000 - k for the
\* least whole k with k / 1000 >= sqrt(s) / 6.
ConfidenceTable ==
  [s \in 0..((Threshold * Threshold) \div 10000) |->
     LET t == Threshold \div 100
     IN 1000 - CHOOSE k \in 0..1000 :
                  /\ (t * k) * (t * k) >= s * 1000000
                  /\ k > 0 => (t * (k - 1)) * (t * (k - 1)) < s * 1000000]

\* 1 - (bestMatch.distance / 0.6), in thousandths, truncated.
Confidence(distance) == ConfidenceTable[Squared(distance)]

\* !descriptor || !Array.isArray(descriptor)
RecognizeInvalid(body) == ~body.descriptor.present \/ ~body.descriptor.isArray

RecognizeFace(db, body) ==
  IF RecognizeInvalid(body)
    THEN [status |-> 400, recognized |-> FALSE,
          error |-> "Valid descriptor array required"]
  ELSE LET bestMatch == Scan(db, body.descriptor, Len(db))
       IN IF Truthy(bestMatch.name)
            THEN [status |-> 200, recognized |-> TRUE, name |-> bestMatch.name,
                  confidence |-> Confidence(bestMatch.distance)]
            ELSE [status |-> 200, recognized |-> FALSE, message |-> "No match found"]

(* ----------------------------- GET /api/data ------------------------- *)

\* faceCount of the stats response (the analysis fields belong to the
\* age/gender route, which never touches faceDB).
GetData(db) == [status |-> 200, faceCount |-> Len(db)]

(* ------------------------------ requests ----------------------------- *)

RegisterBodies == [name : Names, descriptor : Descriptors]

RecognizeBodies == [descriptor : Descriptors]

Idle == [op |-> "none"]

\* A slot for a call of an asynchronous handler, with no call in it.
NoCall == [pc |-> "idle"]

\* The useState values of each component at mount, with the position of
\* its loadModels effect (loadPc) and of the calls that are awaiting.
CaptureInit ==
  [loadPc |-> "await", modelsLoaded |-> FALSE, cameraOn |-> FALSE,
   name |-> "", status |-> "", data |-> Idle,
   calls |-> [k \in 1..MaxPending |-> NoCall]]

RecognitionInit ==
  [loadPc |-> "await", modelsLoaded |-> FALSE, cameraOn |-> FALSE,
   status |-> "", loading |-> FALSE, call |-> NoCall]

AgeGenderInit ==
  [loadPc |-> "await", modelsLoaded |-> FALSE, cameraOn |-> FALSE,
   status |-> "", loading |-> FALSE, analysisResult |-> FALSE,
   imagePreview |-> FALSE, uploadedResult |-> FALSE,
   analyses |-> 0, uploads |-> 0]

EmotionInit ==
  [loadPc |-> "await", stream |-> "none", isDetecting |-> FALSE,
   expressions |-> FALSE, detecting |-> 0]

ClientInit ==
  /\ capture = CaptureInit
  /\ recognition = RecognitionInit
  /\ ageGender = AgeGenderInit
  /\ emotion = EmotionInit

Init ==
  /\ faceDB = <<>>
  /\ last = Idle
  /\ inflight = [c \in 1..NClients |-> Idle]
  /\ replies = [c \in 1..NClients |-> Idle]
  /\ active = {}
  /\ ClientInit

(* One request at a time: the request is received and its handler runs.   *)
(* last keeps the request, the store the handler found and the response.  *)

Register ==
  \E body \in RegisterBodies :
    LET out == RegisterFace(faceDB, body)
    IN /\ Len(out.db) <= MaxRecords
       /\ faceDB' = out.db
       /\ last' = [op |-> "register", body |-> body, db |-> faceDB, res |-> out.res]
       /\ UNCHANGED <<inflight, replies, client>>

Recognize ==
  \E body \in RecognizeBodies :
    /\ last' = [op |-> "recognize", body |-> body, db |-> faceDB,
                res |-> RecognizeFace(faceDB, body)]
    /\ UNCHANGED <<faceDB, inflight, replies, client>>

Data ==
  /\ last' = [op |-> "data", db |-> faceDB, res |-> GetData(faceDB)]
  /\ UNCHANGED <<faceDB, inflight, replies, client>>

Next == Register \/ Recognize \/ Data

Spec == Init /\ [][Next]_vars

(* -------------------- a caller that sends a threshold ---------------- *)
(* The body of a recognize request may carry any further field; the       *)
(* handler destructures descriptor alone (line 81).                       *)

\* Thresholds a caller asks for: 0.3 and 0.9, in thousandths.
CallerThresholds == {300, 900}

ThresholdBodies ==
  [descriptor : {Arr(v) : v \in ValidVectors}, threshold : CallerThresholds]

RecognizeWithThreshold ==
  \E body \in ThresholdBodies :
    /\ last' = [op |-> "recognize", body |-> body, db |-> faceDB,
                res |-> RecognizeFace(faceDB, body)]
    /\ UNCHANGED <<faceDB, inflight, replies, client>>

NextThreshold == Register \/ Recognize \/ RecognizeWithThreshold

SpecThreshold == Init /\ [][NextThreshold]_vars

(* ------------------------ requests in flight ------------------------- *)
(* Several clients have a request on the wire at once.  Node runs one     *)
(* handler at a time and the handlers never await, so the event loop      *)
(* picks any request in flight and runs its handler to completion.        *)
(* Each client sends one request.                                         *)

\* Two well-formed embeddings at distance 0.3 of each other.
Origin == [i \in 1..D |-> 0]

Near == [i \in 1..D |-> IF i = 1 THEN 3 ELSE 0]

ConcRequests ==
  {[op |-> "register", body |-> b] :
      b \in [name : {"A", "a"}, descriptor : {Arr(Origin), Arr(Near)}]}
  \cup {[op |-> "recognize", body |-> b] :
      b \in [descriptor : {Arr(Origin), Arr(Near)}]}

Send(c) ==
  /\ inflight[c] = Idle
  /\ replies[c] = Idle
  /\ \E req \in ConcRequests : inflight' = [inflight EXCEPT ![c] = req]
  /\ UNCHANGED <<faceDB, last, replies, client>>

\* The other clients whose request is in flight while c's handler runs.
Waiting(c) == {d \in 1..NClients : d # c /\ inflight[d] # Idle}

ServeRegister(c) ==
  /\ inflight[c] # Idle
  /\ inflight[c].op = "register"
  /\ LET out == RegisterFace(faceDB, inflight[c].body)
     IN /\ faceDB' = out.db
        /\ last' = [op |-> "register", body |-> inflight[c].body, db |-> faceDB,
                    res |-> out.res]
        /\ replies' = [replies EXCEPT ![c] =
                          [op |-> "register", body |-> inflight[c].body,
                           res |-> out.res, waiting |-> Waiting(c)]]
  /\ inflight' = [inflight EXCEPT ![c] = Idle]
  /\ UNCHANGED client

ServeRecognize(c) ==
  /\ inflight[c] # Idle
  /\ inflight[c].op = "recognize"
  /\ last' = [op |-> "recognize", body |-> inflight[c].body, db |-> faceDB,
              res |-> RecognizeFace(faceDB, inflight[c].body)]
  /\ replies' = [replies EXCEPT ![c] =
                    [op |-> "recognize", body |-> inflight[c].body,
                     res |-> RecognizeFace(faceDB, inflight[c].body),
                     waiting |-> Waiting(c)]]
  /\ inflight' = [inflight EXCEPT ![c] = Idle]
  /\ UNCHANGED <<faceDB, client>>

NextConc ==
  \E c \in 1..NClients : Send(c) \/ ServeRegister(c) \/ ServeRecognize(c)

SpecConc == Init /\ [][NextConc]_vars

(* ============================ the browser ============================ *)
(* App renders FaceCapture, FaceRecognition, AgeGenderAnalysis and        *)
(* EmotionDetector together.  Their steps interleave; they share no React *)
(* state, and FaceCapture and FaceRecognition share the server's faceDB.  *)
(* A status is written with OK for the check mark, FAIL for the cross and *)
(* WARN for the warning sign of the source string.                        *)

Components == {"capture", "recognition", "ageGender", "emotion"}

\* Array.from(detection.descriptor) of a detected face.
DetectedDescriptors == {Arr(Origin), Arr(Near)}

\* Component c takes a step.
Runs(c) ==
  /\ c \in Components
  /\ c \in active \/ Cardinality(active) < MaxActive
  /\ active' = active \cup {c}

CameraButtonAlwaysEnabled(modelsLoaded) == TRUE

\* disabled={!modelsLoaded} on the Turn On Camera button.
CameraButtonEnabled(modelsLoaded) == modelsLoaded

(* ----------------------------- FaceCapture --------------------------- *)

\* await Promise.all([...loadFromUri]) resolves: setModelsLoaded(true).
CaptureModelsLoaded ==
  /\ Runs("capture")
  /\ capture.loadPc = "await"
  /\ capture' = [capture EXCEPT !.loadPc = "done", !.modelsLoaded = TRUE]
  /\ UNCHANGED <<faceDB, last, inflight, replies, recognition, ageGender, emotion>>

\* ... or rejects: the catch sets the status.
CaptureModelsFailed ==
  /\ Runs("capture")
  /\ capture.loadPc = "await"
  /\ capture' = [capture EXCEPT !.loadPc = "done",
                                !.status = "FAIL Failed to load models."]
  /\ UNCHANGED <<faceDB, last, inflight, replies, recognition, ageGender, emotion>>

\* onChange of the name input.
CaptureSetName ==
  /\ Runs("capture")
  /\ \E n \in Names \ {capture.name} : capture' = [capture EXCEPT !.name = n]
  /\ UNCHANGED <<faceDB, last, inflight, replies, recognition, ageGender, emotion>>

\* The Turn On Camera button, rendered while !cameraOn.
CaptureTurnOnCamera ==
  /\ Runs("capture")
  /\ ~capture.cameraOn
  /\ CameraButtonEnabled(capture.modelsLoaded)
  /\ capture' = [capture EXCEPT !.cameraOn = TRUE]
  /\ UNCHANGED <<faceDB, last, inflight, replies, recognition, ageGender, emotion>>

\* captureAndSend up to its first await.  The Register Face button is
\* rendered while cameraOn, next to the Webcam whose video the ref holds,
\* and is never disabled: a click that returns before the await needs no
\* free slot, a click that goes on to the detection takes slot k.
CaptureClick(k) ==
  /\ Runs("capture")
  /\ capture.cameraOn
  /\ Trim(capture.name) = "" \/ capture.calls[k] = NoCall
  /\ LET video == capture.cameraOn
     IN capture' =
          IF Trim(capture.name) = ""
            THEN [capture EXCEPT !.status = "WARN Please enter a name."]
          ELSE IF ~video
            THEN [capture EXCEPT !.status = "WARN Camera not ready."]
          ELSE [capture EXCEPT !.calls[k] = [pc |-> "detect", name |-> capture.name]]
  /\ UNCHANGED <<faceDB, last, inflight, replies, recognition, ageGender, emotion>>

\* detectSingleFace(...) resolves with no face, or with a face whose
\* descriptor is posted with the name the call was started with.
CaptureDetected(k) ==
  /\ Runs("capture")
  /\ capture.calls[k].pc = "detect"
  /\ \/ capture' = [capture EXCEPT !.status = "No face detected. Try again.",
                                   !.calls[k] = NoCall]
     \/ \E d \in DetectedDescriptors :
          capture' = [capture EXCEPT !.calls[k] =
                        [pc |-> "fetch",
                         body |-> [name |-> capture.calls[k].name, descriptor |-> d]]]
  /\ UNCHANGED <<faceDB, last, inflight, replies, recognition, ageGender, emotion>>

\* detectSingleFace(...) rejects: the await is outside the try, the call
\* ends and no state is set.
CaptureDetectThrows(k) ==
  /\ Runs("capture")
  /\ capture.calls[k].pc = "detect"
  /\ capture' = [capture EXCEPT !.calls[k] = NoCall]
  /\ UNCHANGED <<faceDB, last, inflight, replies, recognition, ageGender, emotion>>

\* The server handles the POST /api/register-face of call k.
CaptureServe(k) ==
  /\ Runs("capture")
  /\ capture.calls[k].pc = "fetch"
  /\ LET out == RegisterFace(faceDB, capture.calls[k].body)
     IN /\ Len(out.db) <= MaxRecords
        /\ faceDB' = out.db
        /\ last' = [op |-> "register", body |-> capture.calls[k].body,
                    db |-> faceDB, res |-> out.res]
        /\ capture' = [capture EXCEPT !.calls[k] = [pc |-> "response", res |-> out.res]]
  /\ UNCHANGED <<inflight, replies, recognition, ageGender, emotion>>

\* fetch rejects, before the server was reached or after it handled the
\* request, or res.json() rejects: the catch branch.
CaptureFetchFails(k) ==
  /\ Runs("capture")
  /\ capture.calls[k].pc \in {"fetch", "response"}
  /\ capture' = [capture EXCEPT !.status = "FAIL Registration failed.",
                                !.cameraOn = FALSE,
                                !.calls[k] = NoCall]
  /\ UNCHANGED <<faceDB, last, inflight, replies, recognition, ageGender, emotion>>

\* data.status of a parsed response: the bodies the route sends carry
\* success, error, message and count, and no status field.
StatusField(res) == "undefined"

\* `OK ${data.status}`
ShownAfterResponse(res) == "OK " \o StatusField(res)

\* fetch resolves whatever the HTTP status: data = await res.json(), then
\* setStatus and setCameraOn(false).
CaptureResponse(k) ==
  /\ Runs("capture")
  /\ capture.calls[k].pc = "response"
  /\ capture' = [capture EXCEPT !.data = capture.calls[k].res,
                                !.status = ShownAfterResponse(capture.calls[k].res),
                                !.cameraOn = FALSE,
                                !.calls[k] = NoCall]
  /\ UNCHANGED <<faceDB, last, inflight, replies, recognition, ageGender, emotion>>

CaptureNext ==
  \/ CaptureModelsLoaded \/ CaptureModelsFailed \/ CaptureSetName
  \/ CaptureTurnOnCamera
  \/ \E k \in 1..MaxPending :
       \/ CaptureClick(k) \/ CaptureDetected(k) \/ CaptureDetectThrows(k)
       \/ CaptureServe(k) \/ CaptureFetchFails(k) \/ CaptureResponse(k)

(* ---------------------------- FaceRecognition ------------------------ *)

RecognitionModelsLoaded ==
  /\ Runs("recognition")
  /\ recognition.loadPc = "await"
  /\ recognition' = [recognition EXCEPT !.loadPc = "done", !.modelsLoaded = TRUE]
  /\ UNCHANGED <<faceDB, last, inflight, replies, capture, ageGender, emotion>>

RecognitionModelsFailed ==
  /\ Runs("recognition")
  /\ recognition.loadPc = "await"
  /\ recognition' = [recognition EXCEPT !.loadPc = "done",
                                        !.status = "FAIL Failed to load models."]
  /\ UNCHANGED <<faceDB, last, inflight, replies, capture, ageGender, emotion>>

RecognitionTurnOnCamera ==
  /\ Runs("recognition")
  /\ ~recognition.cameraOn
  /\ CameraButtonEnabled(recognition.modelsLoaded)
  /\ recognition' = [recognition EXCEPT !.cameraOn = TRUE]
  /\ UNCHANGED <<faceDB, last, inflight, replies, capture, ageGender, emotion>>

\* recognizeFace up to its first await.  The Mark Attendance button is
\* rendered while cameraOn and disabled while loading.
RecognitionClick ==
  /\ Runs("recognition")
  /\ recognition.cameraOn
  /\ ~recognition.loading
  /\ recognition' = [recognition EXCEPT !.status = "", !.loading = TRUE,
                                        !.call = [pc |-> "detect"]]
  /\ UNCHANGED <<faceDB, last, inflight, replies, capture, ageGender, emotion>>

\* detectSingleFace(...) resolves: no face ends the call, a face is boxed
\* and its descriptor posted.
RecognitionDetected ==
  /\ Runs("recognition")
  /\ recognition.call.pc = "detect"
  /\ \/ recognition' = [recognition EXCEPT
                          !.status = "WARN No face detected. Please try again.",
                          !.loading = FALSE, !.call = NoCall]
     \/ \E d \in DetectedDescriptors :
          recognition' = [recognition EXCEPT
                            !.call = [pc |-> "fetch", body |-> [descriptor |-> d]]]
  /\ UNCHANGED <<faceDB, last, inflight, replies, capture, ageGender, emotion>>

\* The server handles the POST /api/recognize-face of the call.
RecognitionServe ==
  /\ Runs("recognition")
  /\ recognition.call.pc = "fetch"
  /\ LET res == RecognizeFace(faceDB, recognition.call.body)
     IN /\ last' = [op |-> "recognize", body |-> recognition.call.body,
                    db |-> faceDB, res |-> res]
        /\ recognition' = [recognition EXCEPT !.call = [pc |-> "response", res |-> res]]
  /\ UNCHANGED <<faceDB, inflight, replies, capture, ageGender, emotion>>

\* The detection rejects, fetch rejects (before the server was reached or
\* after it handled the request) or res.json() rejects: the catch branch,
\* then setLoading(false).
RecognitionThrows ==
  /\ Runs("recognition")
  /\ recognition.call.pc \in {"detect", "fetch", "response"}
  /\ recognition' = [recognition EXCEPT
                       !.status = "FAIL Error during face recognition.",
                       !.cameraOn = FALSE, !.loading = FALSE, !.call = NoCall]
  /\ UNCHANGED <<faceDB, last, inflight, replies, capture, ageGender, emotion>>

\* data = await res.json(): the status by data.recognized, camera off,
\* setLoading(false).
RecognitionResponse ==
  /\ Runs("recognition")
  /\ recognition.call.pc = "response"
  /\ recognition' = [recognition EXCEPT
                       !.status = IF recognition.call.res.recognized
                                    THEN "OK Attendance Marked for: "
                                           \o recognition.call.res.name
                                    ELSE "FAIL Face not recognized.",
                       !.cameraOn = FALSE, !.loading = FALSE, !.call = NoCall]
  /\ UNCHANGED <<faceDB, last, inflight, replies, capture, ageGender, emotion>>

RecognitionNext ==
  \/ RecognitionModelsLoaded \/ RecognitionModelsFailed
  \/ RecognitionTurnOnCamera \/ RecognitionClick \/ RecognitionDetected
  \/ RecognitionServe \/ RecognitionThrows \/ RecognitionResponse

(* --------------------------- AgeGenderAnalysis ----------------------- *)
(* analyses and uploads count the calls of analyzeFace and of             *)
(* handleImageUpload that are awaiting.  The answer of                    *)
(* POST /api/analyze-face is taken as it reaches the component: a 2xx     *)
(* with the analysis, or a rejection of axios.post.                       *)

AgeModelsLoaded ==
  /\ Runs("ageGender")
  /\ ageGender.loadPc = "await"
  /\ ageGender' = [ageGender EXCEPT !.loadPc = "done", !.modelsLoaded = TRUE,
                                    !.status = "OK Models loaded successfully!"]
  /\ UNCHANGED <<faceDB, last, inflight, replies, capture, recognition, emotion>>

AgeModelsFailed ==
  /\ Runs("ageGender")
  /\ ageGender.loadPc = "await"
  /\ ageGender' = [ageGender EXCEPT !.loadPc = "done",
                                    !.status = "FAIL Failed to load models."]
  /\ UNCHANGED <<faceDB, last, inflight, replies, capture, recognition, emotion>>

AgeTurnOnCamera ==
  /\ Runs("ageGender")
  /\ ~ageGender.cameraOn
  /\ CameraButtonEnabled(ageGender.modelsLoaded)
  /\ ageGender' = [ageGender EXCEPT !.cameraOn = TRUE]
  /\ UNCHANGED <<faceDB, last, inflight, replies, capture, recognition, emotion>>

\* analyzeFace up to its await.  The Analyze Face button is rendered while
\* cameraOn, next to the Webcam, and disabled while loading.
AnalyzeFaceClick ==
  /\ Runs("ageGender")
  /\ ageGender.cameraOn
  /\ ~ageGender.loading
  /\ ageGender.analyses < MaxPending
  /\ LET video == ageGender.cameraOn
     IN ageGender' =
          IF ~video
            THEN [ageGender EXCEPT !.status = "FAIL Webcam not ready.",
                                   !.loading = FALSE, !.analysisResult = FALSE]
            ELSE [ageGender EXCEPT !.status = "", !.loading = TRUE,
                                   !.analysisResult = FALSE,
                                   !.analyses = ageGender.analyses + 1]
  /\ UNCHANGED <<faceDB, last, inflight, replies, capture, recognition, emotion>>

\* detectAllFaces(...) resolves.  With a face the result is set and the
\* box drawn; drawBox reads webcamRef.current.video, which throws into the
\* catch once Reset has unmounted the Webcam.  Every way ends in
\* setLoading(false).
AnalyzeFaceDetected ==
  /\ Runs("ageGender")
  /\ ageGender.analyses > 0
  /\ \/ ageGender' = [ageGender EXCEPT
                        !.status = "WARN No face detected. Try adjusting the camera.",
                        !.loading = FALSE,
                        !.analyses = ageGender.analyses - 1]
     \/ ageGender' = [ageGender EXCEPT
                        !.analysisResult = TRUE,
                        !.status = IF ageGender.cameraOn
                                     THEN "OK Analysis complete!"
                                     ELSE "FAIL Face analysis error.",
                        !.loading = FALSE,
                        !.analyses = ageGender.analyses - 1]
  /\ UNCHANGED <<faceDB, last, inflight, replies, capture, recognition, emotion>>

\* detectAllFaces(...) rejects: the catch, then setLoading(false).
AnalyzeFaceThrows ==
  /\ Runs("ageGender")
  /\ ageGender.analyses > 0
  /\ ageGender' = [ageGender EXCEPT !.status = "FAIL Face analysis error.",
                                    !.loading = FALSE,
                                    !.analyses = ageGender.analyses - 1]
  /\ UNCHANGED <<faceDB, last, inflight, replies, capture, recognition, emotion>>

ResetAnalysis ==
  /\ Runs("ageGender")
  /\ ageGender' = [ageGender EXCEPT !.cameraOn = FALSE, !.analysisResult = FALSE,
                                    !.imagePreview = FALSE, !.uploadedResult = FALSE,
                                    !.status = ""]
  /\ UNCHANGED <<faceDB, last, inflight, replies, capture, recognition, emotion>>

\* handleImageUpload with a file chosen, up to its await.  The file input
\* is always rendered and never disabled.
HandleImageUpload ==
  /\ Runs("ageGender")
  /\ ageGender.uploads < MaxPending
  /\ ageGender' = [ageGender EXCEPT !.status = "Uploading and analyzing...",
                                    !.loading = TRUE, !.uploadedResult = FALSE,
                                    !.imagePreview = TRUE,
                                    !.uploads = ageGender.uploads + 1]
  /\ UNCHANGED <<faceDB, last, inflight, replies, capture, recognition, emotion>>

\* axios.post resolves or rejects; finally setLoading(false).
ImageUploadAnswered ==
  /\ Runs("ageGender")
  /\ ageGender.uploads > 0
  /\ \/ ageGender' = [ageGender EXCEPT !.uploadedResult = TRUE,
                                       !.status = "OK Photo analyzed!",
                                       !.loading = FALSE,
                                       !.uploads = ageGender.uploads - 1]
     \/ ageGender' = [ageGender EXCEPT !.status = "FAIL Failed to analyze photo.",
                                       !.loading = FALSE,
                                       !.uploads = ageGender.uploads - 1]
  /\ UNCHANGED <<faceDB, last, inflight, replies, capture, recognition, emotion>>

AgeGenderNext ==
  \/ AgeModelsLoaded \/ AgeModelsFailed \/ AgeTurnOnCamera
  \/ AnalyzeFaceClick \/ AnalyzeFaceDetected \/ AnalyzeFaceThrows
  \/ ResetAnalysis \/ HandleImageUpload \/ ImageUploadAnswered

(* ---------------------------- EmotionDetector ------------------------ *)
(* stream is the state of the video element: "none" before startVideo,    *)
(* "requested" while getUserMedia is pending, "playing" once srcObject is *)
(* set on the autoPlay element, "denied" when getUserMedia rejects.       *)
(* detecting counts the interval callbacks awaiting detectAllFaces.       *)

\* The models resolve and loadModels calls startVideo().
EmotionModelsLoaded ==
  /\ Runs("emotion")
  /\ emotion.loadPc = "await"
  /\ emotion' = [emotion EXCEPT !.loadPc = "loaded", !.stream = "requested"]
  /\ UNCHANGED <<faceDB, last, inflight, replies, capture, recognition, ageGender>>

EmotionModelsFailed ==
  /\ Runs("emotion")
  /\ emotion.loadPc = "await"
  /\ emotion' = [emotion EXCEPT !.loadPc = "failed"]
  /\ UNCHANGED <<faceDB, last, inflight, replies, capture, recognition, ageGender>>

\* getUserMedia resolves (videoRef.current.srcObject = stream) or rejects.
StartVideoSettled ==
  /\ Runs("emotion")
  /\ emotion.stream = "requested"
  /\ \E outcome \in {"playing", "denied"} :
       emotion' = [emotion EXCEPT !.stream = outcome]
  /\ UNCHANGED <<faceDB, last, inflight, replies, capture, recognition, ageGender>>

ToggleDetection ==
  /\ Runs("emotion")
  /\ emotion' = [emotion EXCEPT !.isDetecting = ~emotion.isDetecting]
  /\ UNCHANGED <<faceDB, last, inflight, replies, capture, recognition, ageGender>>

\* !videoRef.current || videoRef.current.paused: the element is mounted
\* and stays paused until it is given a stream to play.
VideoPaused(stream) == stream # "playing"

\* A firing of the 500 ms interval, which exists while isDetecting: it
\* returns at once on a paused video and awaits a detection otherwise.
DetectionTick ==
  /\ Runs("emotion")
  /\ emotion.isDetecting
  /\ emotion.detecting < MaxPending
  /\ emotion' = IF VideoPaused(emotion.stream)
                  THEN emotion
                  ELSE [emotion EXCEPT !.detecting = emotion.detecting + 1]
  /\ UNCHANGED <<faceDB, last, inflight, replies, capture, recognition, ageGender>>

\* detectAllFaces(...) settles: the expressions of a first face are kept.
DetectionTickDone ==
  /\ Runs("emotion")
  /\ emotion.detecting > 0
  /\ \E face \in BOOLEAN :
       emotion' = [emotion EXCEPT !.detecting = emotion.detecting - 1,
                                  !.expressions = emotion.expressions \/ face]
  /\ UNCHANGED <<faceDB, last, inflight, replies, capture, recognition, ageGender>>

EmotionNext ==
  \/ EmotionModelsLoaded \/ EmotionModelsFailed \/ StartVideoSettled
  \/ ToggleDetection \/ DetectionTick \/ DetectionTickDone

NextClient == CaptureNext \/ RecognitionNext \/ AgeGenderNext \/ EmotionNext

SpecClient == Init /\ [][NextClient]_vars

(* ======================= properties of the store ===================== *)

\* The labels of a store.
Labels(db) == {db[i].name : i \in 1..Len(db)}

\* A well-formed embedding: an array of exactly D numbers.
IsEmbedding(d) == d.isArray /\ Len(d.elems) = D

\* Squared Euclidean distance of two D-vectors, in hundredths.
SquaredDistance(q, e) ==
  LET acc[i \in 0..D] ==
        IF i = 0 THEN 0 ELSE acc[i - 1] + (q[i] - e[i]) * (q[i] - e[i])
  IN acc[D]

\* The squared distances from q to the records of db, by position.
SquaredAt(db, q, i) == SquaredDistance(q, db[i].descriptor.elems)

MinSquared(db, q) ==
  CHOOSE m \in {SquaredAt(db, q, i) : i \in 1..Len(db)} :
    \A j \in 1..Len(db) : m <= SquaredAt(db, q, j)

\* m (hundredths, squared) against the threshold (thousandths).
BelowThreshold(m) == m * 10000 < Threshold * Threshold

\* The last request was a recognize of a well-formed embedding against a
\* store of well-formed embeddings.
WellFormedRecognize ==
  /\ last.op = "recognize"
  /\ IsEmbedding(last.body.descriptor)
  /\ \A i \in 1..Len(last.db) : IsEmbedding(last.db[i].descriptor)

\* C1: in every reachable state no two records of the store have the same
\* label.
NoDuplicateLabels ==
  \A i, j \in 1..Len(faceDB) : i # j => faceDB[i].name # faceDB[j].name

\* C1 witness: a full store that has just turned a duplicate away.
DuplicateTurnedAway ==
  /\ last.op = "register"
  /\ last.res.status = 409
  /\ Len(faceDB) = MaxRecords

\* C2 as stated: a register whose label is already stored always fails
\* with 409 (DuplicateIdentity) and leaves the store as it was.
DuplicateAlwaysConflict ==
  (last.op = "register" /\ last.body.name \in Labels(last.db))
    => (last.res.status = 409 /\ faceDB = last.db)

\* C2 amended: a register whose label is already stored (exact,
\* case-sensitive match) leaves the store as it was; it fails with 409 when
\* the request carries a descriptor and with 400 (InvalidInput) when it
\* carries none; and 409 is answered for no other request.
DuplicateRejected ==
  last.op = "register" =>
    /\ last.body.name \in Labels(last.db) =>
         /\ faceDB = last.db
         /\ last.body.descriptor.present => last.res.status = 409
         /\ ~last.body.descriptor.present => last.res.status = 400
    /\ last.res.status = 409 => last.body.name \in Labels(last.db)

\* C2 witness: a duplicate that brought another embedding was refused and
\* the embedding first stored under the label is still there.
DuplicateKeptOriginal ==
  /\ last.op = "register"
  /\ last.res.status = 409
  /\ \E i \in 1..Len(faceDB) :
       /\ faceDB[i].name = last.body.name
       /\ faceDB[i].descriptor # last.body.descriptor
       /\ faceDB[i] = last.db[i]
  /\ "A" \in Labels(faceDB) /\ "a" \in Labels(faceDB)

\* C3: recognize answers recognized exactly when the store is not empty and
\* the least Euclidean distance from the query to a stored embedding is
\* strictly below the threshold; the name it returns is that of a record at
\* that least distance; otherwise it answers "no match", never an error.
IdentifyDecision ==
  WellFormedRecognize =>
    LET q == last.body.descriptor.elems
        db == last.db
    IN /\ last.res.status = 200
       /\ last.res.recognized <=>
            (db # <<>> /\ BelowThreshold(MinSquared(db, q)))
       /\ last.res.recognized =>
            \E i \in 1..Len(db) :
               /\ db[i].name = last.res.name
               /\ SquaredAt(db, q, i) = MinSquared(db, q)

\* C3 witness: the nearest record is at exactly the threshold distance and
\* the answer is "no match".
ThresholdBoundaryRejected ==
  /\ WellFormedRecognize
  /\ last.db # <<>>
  /\ MinSquared(last.db, last.body.descriptor.elems) * 10000 = Threshold * Threshold
  /\ ~last.res.recognized

\* C4: when several records are at the same least distance, below the
\* threshold, recognize returns the one registered first.
EarliestWinsTie ==
  (WellFormedRecognize /\ last.res.recognized) =>
    LET q == last.body.descriptor.elems
        db == last.db
        first == CHOOSE i \in 1..Len(db) :
                    /\ SquaredAt(db, q, i) = MinSquared(db, q)
                    /\ \A j \in 1..(i - 1) : SquaredAt(db, q, j) # MinSquared(db, q)
    IN last.res.name = db[first].name

\* C4 witness: two different embeddings tie at the least distance and the
\* query was recognized.
TieRecognized ==
  /\ WellFormedRecognize
  /\ last.res.recognized
  /\ \E i, j \in 1..Len(last.db) :
       /\ i < j
       /\ last.db[i].descriptor # last.db[j].descriptor
       /\ SquaredAt(last.db, last.body.descriptor.elems, i)
            = MinSquared(last.db, last.body.descriptor.elems)
       /\ SquaredAt(last.db, last.body.descriptor.elems, j)
            = MinSquared(last.db, last.body.descriptor.elems)
       /\ last.res.name = last.db[i].name

\* C5 as stated: recognize called with the exact descriptor of a record
\* that register accepted answers recognized, with confidence 1.
SelfMatch ==
  (/\ last.op = "recognize"
   /\ \E i \in 1..Len(last.db) : last.db[i].descriptor = last.body.descriptor)
    => (/\ last.res.status = 200
        /\ last.res.recognized
        /\ last.res.confidence = 1000)

\* C6 as stated: every stored embedding has length exactly D.
StoredEmbeddingsHaveLengthD ==
  \A i \in 1..Len(faceDB) : IsEmbedding(faceDB[i].descriptor)

\* C7 as stated: a recognize whose descriptor is not of length D fails with
\* 400 (InvalidInput).
IdentifyDimensionGuard ==
  (last.op = "recognize" /\ ~IsEmbedding(last.body.descriptor))
    => last.res.status = 400

\* C8 as stated: a register whose label is empty after trimming fails with
\* 400 (InvalidInput) and adds no record.
BlankLabelRejected ==
  (last.op = "register" /\ Trim(last.body.name) = "")
    => (last.res.status = 400 /\ faceDB = last.db)

\* The clients whose register of name n has been answered.
Registered(n) ==
  {c \in 1..NClients :
     /\ replies[c].op = "register"
     /\ replies[c].body.name = n}

\* C9: of the register requests for one label that were in flight together,
\* exactly one succeeds and every other one fails with 409; the store holds
\* the winner's record whole, and a recognize only ever names a label whose
\* register has been answered.
FirstCommitterWins ==
  /\ \A n \in {"A", "a"} :
       LET winners == {c \in Registered(n) : replies[c].res.status = 200}
       IN Registered(n) # {} =>
            /\ Cardinality(winners) = 1
            /\ \A c \in Registered(n) \ winners : replies[c].res.status = 409
            /\ \A c \in winners :
                 \E i \in 1..Len(faceDB) :
                    /\ faceDB[i] = [name |-> n, descriptor |-> replies[c].body.descriptor]
                    /\ \A j \in 1..Len(faceDB) : faceDB[j].name = n => j = i
  /\ \A c \in 1..NClients :
       (replies[c].op = "recognize" /\ replies[c].res.recognized)
         => \E w \in Registered(replies[c].res.name) : replies[w].res.status = 200

\* C9 witness: two registers of one label with different embeddings were in
\* flight together; the first served won and the other got 409.
RaceResolved ==
  \E w, l \in 1..NClients :
    /\ w # l
    /\ w \in Registered("A") /\ l \in Registered("A")
    /\ replies[w].body.descriptor # replies[l].body.descriptor
    /\ l \in replies[w].waiting
    /\ replies[w].res.status = 200
    /\ replies[l].res.status = 409

\* The confidence falls strictly as the accepted distance grows, over the
\* distances of embeddings (roots of whole hundredths).
ConfidenceDecreasing ==
  \A s, t \in 0..((Threshold * Threshold) \div 10000) :
    (s < t /\ BelowThreshold(t)) => Confidence(Sqrt(s)) > Confidence(Sqrt(t))

\* C10: the confidence of an accepted match is 1 - distance / threshold
\* (truncated to the thousandth), lies between 0 and 1, is 1 at distance 0
\* and falls strictly as the distance grows.
ConfidenceFormula ==
  /\ ConfidenceDecreasing
  /\ (last.op = "recognize" /\ last.res.recognized) =>
       /\ last.res.confidence \in 0..1000
       /\ WellFormedRecognize =>
            LET m == MinSquared(last.db, last.body.descriptor.elems)
                c == 1000 - last.res.confidence
                t == Threshold \div 100
            IN /\ (t * c) * (t * c) >= m * 1000000
               /\ c > 0 => (t * (c - 1)) * (t * (c - 1)) < m * 1000000
               /\ m = 0 => last.res.confidence = 1000

\* C10 witness: an accepted match at a distance strictly between 0 and the
\* threshold, with a confidence strictly between 0 and 1.
PartialConfidence ==
  /\ WellFormedRecognize
  /\ last.res.recognized
  /\ MinSquared(last.db, last.body.descriptor.elems) > 0
  /\ last.res.confidence \in 1..999

\* C11 as stated: when the caller supplies a threshold, recognize accepts
\* exactly when the least distance is strictly below that threshold.
CallerThresholdDecides ==
  (WellFormedRecognize /\ "threshold" \in DOMAIN last.body) =>
    LET q == last.body.descriptor.elems
        t == last.body.threshold
    IN last.res.recognized <=>
         (last.db # <<>> /\ MinSquared(last.db, q) * 10000 < t * t)

\* C12: a successful register appends exactly one record at the end of the
\* store, leaves every earlier record as it was, and returns the earlier
\* count plus one, which is the count GET /api/data reports afterwards.
RegisterAppendsOne ==
  (last.op = "register" /\ last.res.status = 200) =>
    /\ Len(faceDB) = Len(last.db) + 1
    /\ \A i \in 1..Len(last.db) : faceDB[i] = last.db[i]
    /\ faceDB[Len(faceDB)] =
         [name |-> last.body.name, descriptor |-> last.body.descriptor]
    /\ last.res.count = Len(last.db) + 1
    /\ GetData(faceDB).faceCount = last.res.count

\* C12 witness: a register succeeded on a store that already held a record.
AppendedToNonEmpty ==
  /\ last.op = "register"
  /\ last.res.status = 200
  /\ last.db # <<>>
  /\ faceDB[1] = last.db[1]
  /\ last.res.count = MaxRecords

(* ===================== properties of the components ================== *)

\* C13 as stated: FaceCapture shows the check-mark status only when the
\* server accepted and stored the registration; after a 409 or a 400 the
\* status shown is not a success.
SuccessShownOnlyIfStored ==
  (capture.data # Idle /\ capture.status = ShownAfterResponse(capture.data))
    => (capture.data.status = 200 /\ capture.data.success)

\* C14: in every component a face detection on the video runs only once
\* that component's models are loaded: in FaceCapture, FaceRecognition and
\* AgeGenderAnalysis the camera is on, or a detection awaited, only with
\* modelsLoaded; in EmotionDetector the stream is requested only after the
\* models loaded, and a tick awaits a detection or leaves expressions only
\* once the stream plays.
DetectionOnlyAfterModels ==
  /\ (capture.cameraOn \/ \E k \in 1..MaxPending : capture.calls[k].pc = "detect")
       => capture.modelsLoaded
  /\ (recognition.cameraOn \/ recognition.call.pc = "detect")
       => recognition.modelsLoaded
  /\ (ageGender.cameraOn \/ ageGender.analyses > 0) => ageGender.modelsLoaded
  /\ emotion.stream # "none" => emotion.loadPc = "loaded"
  /\ (emotion.detecting > 0 \/ emotion.expressions) => emotion.stream = "playing"

\* C14 witness: EmotionDetector, switched to detecting, awaits a detection
\* on the playing video.
EmotionDetectionRunning ==
  /\ emotion.isDetecting
  /\ emotion.detecting > 0

\* C15 as stated: loading is true whenever a camera analysis or a photo
\* upload of AgeGenderAnalysis has not completed.
LoadingWhileInFlight ==
  ageGender.analyses + ageGender.uploads > 0 => ageGender.loading

====
